---- MODULE Spec2Model ----
(***************************************************************************)
(* ldapcrud: a wrapper around an ldapjs client offering authenticate,      *)
(* create, read, update, delete and move on directory entries.             *)
(*                                                                         *)
(* The repository holds two implementations of class LDAPCRUD:             *)
(*   "promise"   src/unnamed/part_000  every method returns a Promise and  *)
(*               talks to the directory through the field this.client;     *)
(*   "callback"  src/index.js          every method takes a callback and   *)
(*               obtains its client from createClient(...).                *)
(* Both are modelled; call.impl says which one is executing the call.      *)
(*                                                                         *)
(* The ldapjs client is the environment.  A request the code issues is     *)
(* appended to log with res = "pending"; the action that models the        *)
(* handler of its answer draws the answer (success or an error) and runs   *)
(* the handler's code.                                                     *)
(***************************************************************************)
EXTENDS Integers, Sequences, FiniteSets, TLC

(***************************************************************************)
(* Bounds of the model.                                                    *)
(***************************************************************************)
MaxEntries == 2     \* entries held by the directory
MaxChanges == 2     \* longest change list passed to update

(***************************************************************************)
(* JavaScript values.  Attribute values are strings; undefined is a value  *)
(* of its own, which a template literal renders as the text "undefined".   *)
(***************************************************************************)
undefined == "<undefined>"

isUndefined(obj) == obj = undefined

Falsy(v) == v = undefined \/ v = ""

Str(v) == IF v = undefined THEN "undefined" ELSE v

(***************************************************************************)
(* Configuration (README "Setup").                                         *)
(***************************************************************************)
baseDN == "OU=Customers,DC=Company,DC=local"
userDN == "CN=serviceadmin,OU=Customers,DC=Company,DC=local"
password == "secret"
defaultFilter == "(mail=*@*)"
suffix == "@Company.local"
attributes == <<"sAMAccountName", "mail", "sn", "givenName">>

(***************************************************************************)
(* Errors.  An error value carries the fields the code or a caller looks   *)
(* at: name (ldapjs error class), code and errno (the literal built by     *)
(* authenticate), dn (ldapjs: the matchedDN the server put in its answer). *)
(***************************************************************************)
\* code: 0x31
LDAP_INVALID_CREDENTIALS == 49

\* the err of a callback called without one (code 0: none)
NoError == [name |-> "null", code |-> 0, errno |-> undefined, dn |-> ""]

InvalidCredentialsLiteral ==
    [name |-> undefined, code |-> LDAP_INVALID_CREDENTIALS,
     errno |-> "LDAP_INVALID_CREDENTIALS", dn |-> ""]

JsError(n) == [name |-> n, code |-> 0, errno |-> undefined, dn |-> ""]

TypeError == JsError("TypeError")

\* the client object, when it travels in the place of an error
ClientObject == JsError(undefined)

LdapError(n, matched) ==
    [name |-> n,
     code |-> IF n = "InvalidCredentialsError" THEN LDAP_INVALID_CREDENTIALS ELSE 1,
     errno |-> undefined, dn |-> matched]

TransportErrorNames == {"InvalidCredentialsError", "OperationsError"}

\* the errors the transport may answer a request about dn with: the server
\* chooses the matchedDN, which may or may not be the request's dn
TransportErrors(dn) ==
    {LdapError(n, m) : n \in TransportErrorNames, m \in {"", dn}}

\* an answer to a request: NoError for success, else an error
Answers(dn) == {NoError} \cup TransportErrors(dn)

(***************************************************************************)
(* Requests sent to the ldapjs client.                                     *)
(***************************************************************************)
NoEntry ==
    [dn |-> undefined, cn |-> undefined, name |-> undefined,
     sn |-> undefined, givenName |-> undefined, displayName |-> undefined,
     mail |-> undefined, sAMAccountName |-> undefined,
     distinguishedName |-> undefined, userPrincipalName |-> undefined,
     controls |-> undefined]

NoReq ==
    [kind |-> "none", sess |-> 0, dn |-> "", password |-> "", newDN |-> "",
     filter |-> "", scope |-> "", attributes |-> <<>>, changes |-> <<>>,
     entry |-> NoEntry, res |-> "pending", err |-> NoError]

VARIABLES
    call,          \* the public operation in progress: implementation, name, arguments
    pc,            \* where the operation stands: the callback it is waiting for
    client,        \* this.client of the promise implementation (0: unset, -1: an error object, n: session n)
    sessions,      \* ldap.createClient results, in creation order: "binding", "bound", "unbound"
    log,           \* requests the operation has sent to the client, with their answers
    reports,       \* outcomes the operation has reported to its caller
    dir,           \* the directory held by the server
    loc            \* the objects and local variables of the operation in progress

vars == <<call, pc, client, sessions, log, reports, dir, loc>>

NoClient == 0
ErrClient == -1

\* an options object without attributes
NoAttributes == <<undefined>>

NoOptions == [filter |-> undefined, scope |-> undefined, attributes |-> NoAttributes]
NoStream == [entries |-> <<>>, last |-> "end", err |-> NoError]

(***************************************************************************)
(* The directory.  Entry i of the initial directory; the entries differ in *)
(* the attributes they hold.                                               *)
(***************************************************************************)
CommonNames == <<"Test User", "Solo">>
GivenNames == <<"Test", undefined>>
Surnames == <<"User", "Solo">>
Mails == <<"test@mail.com", undefined>>

Pick(seq, i) == seq[((i - 1) % Len(seq)) + 1]

InitialEntry(i) ==
    LET cn == Pick(CommonNames, i) \o " " \o ToString(i)
    IN  [NoEntry EXCEPT
           !.dn = "CN=" \o cn \o "," \o baseDN,
           !.cn = cn,
           !.sn = Pick(Surnames, i),
           !.givenName = Pick(GivenNames, i),
           !.mail = Pick(Mails, i),
           !.controls = "[]"]

\* the live directory entries, and those whose DN is dn
Live(d) == {i \in DOMAIN d : d[i].exists}

Holding(d, dn) == {i \in Live(d) : d[i].object.dn = dn}

Range(seq) == {seq[i] : i \in DOMAIN seq}

\* every sequence without repetition of elements of S
Arrangements(S) ==
    {q \in UNION {[1..n -> S] : n \in 0..Cardinality(S)} :
        \A i, j \in DOMAIN q : q[i] = q[j] => i = j}

\* the attributes of an entry the server returns under a projection: the dn
\* and the controls always, the other attributes when they are asked for (an
\* empty list asks for all of them)
Project(obj, attrs) ==
    [a \in DOMAIN obj |->
        IF a \in {"dn", "controls"} \/ a \in Range(attrs) \/ attrs = <<>>
        THEN obj[a] ELSE undefined]

\* the responses the server may give to a search: any arrangement of live
\* entries (the filter is the server's to evaluate), ended by 'end' or 'error'
SearchResponses(d, attrs) ==
    {[entries |-> [k \in DOMAIN q |-> Project(d[q[k]].object, attrs)],
      last |-> l, err |-> e] :
        q \in Arrangements(Live(d)),
        l \in {"end"}, e \in {NoError}}
    \cup
    {[entries |-> [k \in DOMAIN q |-> Project(d[q[k]].object, attrs)],
      last |-> "error", err |-> LdapError("OperationsError", "")] :
        q \in Arrangements(Live(d))}

(***************************************************************************)
(* Helpers on the per-call state.                                          *)
(***************************************************************************)
\* a call: the implementation, the method, its arguments as passed, and the
\* number of clients created before it
NoCall ==
    [impl |-> "none", op |-> "none", dn |-> undefined, password |-> undefined,
     filter |-> undefined, newDN |-> undefined, changedAttrs |-> <<>>,
     entry |-> NoEntry, options |-> NoOptions, base |-> 0,
     model |-> <<>>, data |-> [k \in {} |-> undefined]]

Report(err, val) == [err |-> err, val |-> val]

\* the requests whose answer the operation is waiting for
Pending == {i \in 1..Len(log) : log[i].res = "pending"}

Answered(i, err) ==
    [log EXCEPT ![i].res = IF err = NoError THEN "ok" ELSE "err", ![i].err = err]

\* ldap.createClient(this.config.clientOptions): a new, unbound client object
NewSession == Len(sessions) + 1

\* loc before a call: changedAttrs is update's change list (the caller's
\* array), entry is create's entry (the caller's object), options is read's
\* options object, stream the search response (entries still to emit and the
\* final event), result read's result array, users the array read handed to
\* update, delete or move, rename and newDN update's variables, changes the
\* change set update built, cur the client held by the running closure, all
\* the outcome Promise.all has settled with
NoLoc ==
    [changedAttrs |-> <<>>, entry |-> NoEntry, options |-> NoOptions,
     stream |-> NoStream, result |-> <<>>, users |-> <<>>, rename |-> FALSE,
     newDN |-> "false", changes |-> <<>>, cur |-> 0,
     ldapModel |-> [k \in {} |-> undefined],
     nodeModel |-> [k \in {} |-> undefined]]

\* The constructor sets config and utils and leaves this.client unset.  The
\* promise methods use this.client as their session, so the instance is
\* taken both as constructed and with a bound client in this.client.
Init ==
    /\ call = NoCall
    /\ pc = "idle"
    /\ \/ client = NoClient /\ sessions = <<>>
       \/ client = 1 /\ sessions = <<"bound">>
    /\ log = <<>>
    /\ reports = <<>>
    /\ dir = [i \in 1..MaxEntries |-> [exists |-> TRUE, object |-> InitialEntry(i)]]
    /\ loc = NoLoc

\* a public method is called on the instance: on the constructed one, or on
\* the one init() has settled on
CanCall == pc = "idle" \/ (pc = "done" /\ call.op = "init")

Begin(c) == call' = [c EXCEPT !.base = Len(sessions)]

(***************************************************************************)
(* createClient                                                            *)
(***************************************************************************)
\* callback createClient: the identity bound is the caller's unless the
\* first argument is the callback
C_createClient_bind(dn, pw) ==
    [NoReq EXCEPT !.kind = "bind", !.sess = NewSession, !.dn = dn, !.password = pw]

\* promise createClient: dn and password are overwritten by the configured ones
P_createClient_bind(dn, pw) ==
    [NoReq EXCEPT !.kind = "bind", !.sess = NewSession, !.dn = userDN,
                  !.password = password]

\* the bind callback of createClient: a failed bind unbinds the client
createClient_onBind(s, err) ==
    [sessions EXCEPT ![s] = IF err # NoError THEN "unbound" ELSE "bound"]

(***************************************************************************)
(* authenticate                                                            *)
(***************************************************************************)
AuthDNs == {undefined, "", "cn=valid, ou=ldapcrud"}
AuthPasswords == {undefined, "", "valid"}

authenticate_skip_dnonly(dn, pw) == Falsy(dn)

\* Skip authentication if an empty username or password is provided.
authenticate_skip(dn, pw) == Falsy(dn) \/ Falsy(pw)

C_authenticate ==
    /\ CanCall
    /\ \E dn \in AuthDNs, pw \in AuthPasswords :
         /\ Begin([NoCall EXCEPT !.impl = "callback", !.op = "authenticate",
                                 !.dn = dn, !.password = pw])
         /\ IF authenticate_skip(dn, pw)
            THEN /\ reports' = <<Report(InvalidCredentialsLiteral, undefined)>>
                 /\ pc' = "done"
                 /\ log' = <<>>
                 /\ UNCHANGED sessions
            ELSE /\ reports' = <<>>
                 /\ sessions' = Append(sessions, "binding")
                 /\ log' = <<C_createClient_bind(dn, pw)>>
                 /\ pc' = "authenticate_bind"
    /\ loc' = NoLoc
    /\ UNCHANGED <<client, dir>>

\* the callback authenticate hands to createClient
C_authenticate_onBind ==
    /\ call.impl = "callback" /\ pc = "authenticate_bind"
    /\ \E err \in Answers("") :
         /\ log' = Answered(1, err)
         /\ sessions' = createClient_onBind(log[1].sess, err)
         /\ reports' =
              IF err # NoError /\ err.name # "InvalidCredentialsError"
              THEN <<Report(err, undefined)>>
              ELSE <<Report(NoError, IF err # NoError THEN "false" ELSE "true")>>
    /\ pc' = "done"
    /\ UNCHANGED <<call, client, dir, loc>>

\* the promise authenticate: the executor returns the createClient chain
\* without ever calling resolve or reject of the promise it was given
P_authenticate ==
    /\ CanCall
    /\ \E dn \in AuthDNs, pw \in AuthPasswords :
         /\ Begin([NoCall EXCEPT !.impl = "promise", !.op = "authenticate",
                                 !.dn = dn, !.password = pw])
         /\ IF authenticate_skip(dn, pw)
            THEN /\ reports' = <<Report(InvalidCredentialsLiteral, undefined)>>
                 /\ pc' = "done"
                 /\ log' = <<>>
                 /\ UNCHANGED sessions
            ELSE /\ reports' = <<>>
                 /\ sessions' = Append(sessions, "binding")
                 /\ log' = <<P_createClient_bind(dn, pw)>>
                 /\ pc' = "authenticate_bind"
    /\ loc' = NoLoc
    /\ UNCHANGED <<client, dir>>

\* the bind callback inside the promise createClient, then authenticate's
\* .then/.catch on the promise createClient returned: their result settles
\* the inner chain only
P_authenticate_onBind ==
    /\ call.impl = "promise" /\ pc = "authenticate_bind"
    /\ \E err \in Answers("") :
         /\ log' = Answered(1, err)
         /\ sessions' = createClient_onBind(log[1].sess, err)
    /\ pc' = "done"
    /\ UNCHANGED <<call, client, dir, loc, reports>>

(***************************************************************************)
(* read                                                                    *)
(***************************************************************************)
Filters == {undefined, "", "(uid=valid)"}

ReadOptions ==
    {[filter |-> f, scope |-> sc, attributes |-> at] :
        f \in Filters, sc \in {undefined, "base"},
        at \in {NoAttributes, <<"cn", "mail">>}}

\* options in which a filter given by the caller replaces the default one
read_options_rawfilter(o) ==
    [filter |-> IF Falsy(o.filter) THEN "(&" \o defaultFilter \o ")" ELSE o.filter,
     scope |-> IF o.scope = undefined THEN "sub" ELSE o.scope,
     attributes |-> IF o.attributes = NoAttributes THEN attributes ELSE o.attributes]

\* the options read sends: the filter wrapped with the default filter, scope
\* and attributes defaulted when the caller's options carry none
read_options(o) ==
    [filter |-> "(&" \o defaultFilter \o (IF Falsy(o.filter) THEN "" ELSE o.filter) \o ")",
     scope |-> IF o.scope = undefined THEN "sub" ELSE o.scope,
     attributes |-> IF o.attributes = NoAttributes THEN attributes ELSE o.attributes]

\* a search request whose scope is 'sub' whatever the options say
read_search_sub(s, o) ==
    [NoReq EXCEPT !.kind = "search", !.sess = s, !.dn = baseDN,
                  !.filter = o.filter, !.scope = "sub",
                  !.attributes = o.attributes]

read_search(s, o) ==
    [NoReq EXCEPT !.kind = "search", !.sess = s, !.dn = baseDN,
                  !.filter = o.filter, !.scope = o.scope,
                  !.attributes = o.attributes]

\* a copy of entry.object that keeps controls
read_user_withControls(obj) == obj

\* the 'searchEntry' handler: a copy of entry.object without controls
read_user(obj) == [obj EXCEPT !.controls = undefined]

\* a usable this.client: a client object that is bound
HasClient == client > 0

\* ---- callback implementation ----

\* read(options, callback): createClient(callback) binds as the service user
C_read_begin(o) ==
    /\ sessions' = Append(sessions, "binding")
    /\ log' = <<C_createClient_bind(userDN, password)>>
    /\ reports' = <<>>
    /\ pc' = "read_bind"
    /\ UNCHANGED <<client, dir>>

C_read ==
    /\ CanCall
    /\ \E o \in ReadOptions :
         /\ Begin([NoCall EXCEPT !.impl = "callback", !.op = "read",
                                 !.filter = o.filter, !.options = o])
         /\ loc' = [NoLoc EXCEPT !.options = o]
         /\ C_read_begin(o)

\* the callback read hands to createClient; an error goes to read's callback,
\* which in update, delete and move passes it on to the caller's
C_read_onBind ==
    /\ call.impl = "callback" /\ pc = "read_bind"
    /\ \E err \in Answers("") :
         LET s == log[1].sess
             o == read_options(loc.options)
         IN  /\ sessions' = createClient_onBind(s, err)
             /\ IF err # NoError
                THEN /\ log' = Answered(1, err)
                     /\ reports' = <<Report(err, undefined)>>
                     /\ pc' = "done"
                     /\ UNCHANGED loc
                ELSE /\ log' = Append(Answered(1, err), read_search(s, o))
                     /\ loc' = [loc EXCEPT !.options = o, !.cur = s]
                     /\ pc' = "read_search"
                     /\ UNCHANGED reports
    /\ UNCHANGED <<call, client, dir>>

\* the callback of client.search
C_read_onSearch ==
    /\ call.impl = "callback" /\ pc = "read_search"
    /\ \/ \E err \in TransportErrors("") :
            /\ log' = Answered(2, err)
            /\ sessions' = [sessions EXCEPT ![loc.cur] = "unbound"]
            /\ reports' = <<Report(err, undefined)>>
            /\ pc' = "done"
            /\ UNCHANGED loc
       \/ \E r \in SearchResponses(dir, loc.options.attributes) :
            /\ log' = Answered(2, NoError)
            /\ loc' = [loc EXCEPT !.stream = r, !.result = <<>>]
            /\ pc' = "read_stream"
            /\ UNCHANGED <<sessions, reports>>
    /\ UNCHANGED <<call, client, dir>>

\* res.on('searchEntry')
read_onSearchEntry ==
    /\ pc = "read_stream"
    /\ loc.stream.entries # <<>>
    /\ loc' = [loc EXCEPT !.stream.entries = Tail(@),
                          !.result = Append(@, read_user(Head(loc.stream.entries)))]
    /\ UNCHANGED <<call, pc, client, dir, sessions, log, reports>>

\* res.on('error'): the error is printed; callback is not called, the client
\* is not unbound
C_read_onError ==
    /\ call.impl = "callback" /\ pc = "read_stream"
    /\ loc.stream.entries = <<>> /\ loc.stream.last = "error"
    /\ pc' = "done"
    /\ UNCHANGED <<call, client, dir, sessions, log, reports, loc>>

\* res.on('end') up to the call of callback(null, response)
C_read_end ==
    /\ call.impl = "callback" /\ pc = "read_stream"
    /\ loc.stream.entries = <<>> /\ loc.stream.last = "end"

C_read_onEnd ==
    /\ C_read_end /\ call.op = "read"
    /\ sessions' = [sessions EXCEPT ![loc.cur] = "unbound"]
    /\ reports' = <<Report(NoError, "response")>>
    /\ pc' = "done"
    /\ UNCHANGED <<call, client, dir, log, loc>>

\* ---- promise implementation ----

\* read(options): the executor; this.client.search throws a TypeError when
\* this.client is not a client, which rejects the promise
P_read_begin(o) ==
    /\ IF HasClient
       THEN /\ log' = <<read_search(client, read_options(o))>>
            /\ reports' = <<>>
            /\ pc' = "read_search"
       ELSE /\ log' = <<>>
            /\ reports' = <<Report(TypeError, undefined)>>
            /\ pc' = "done"
    /\ UNCHANGED <<client, dir, sessions>>

P_read ==
    /\ CanCall
    /\ \E o \in ReadOptions :
         /\ Begin([NoCall EXCEPT !.impl = "promise", !.op = "read",
                                 !.filter = o.filter, !.options = o])
         /\ loc' = [NoLoc EXCEPT !.options = read_options(o)]
         /\ P_read_begin(o)

\* the callback of this.client.search
P_read_onSearch ==
    /\ call.impl = "promise" /\ pc = "read_search"
    /\ \/ \E err \in TransportErrors("") :
            /\ log' = Answered(1, err)
            /\ reports' = <<Report(err, undefined)>>
            /\ pc' = "done"
            /\ UNCHANGED loc
       \/ \E r \in SearchResponses(dir, loc.options.attributes) :
            /\ log' = Answered(1, NoError)
            /\ loc' = [loc EXCEPT !.stream = r, !.result = <<>>]
            /\ pc' = "read_stream"
            /\ UNCHANGED reports
    /\ UNCHANGED <<call, client, dir, sessions>>

\* .on('error', reject)
P_read_onError ==
    /\ call.impl = "promise" /\ pc = "read_stream"
    /\ loc.stream.entries = <<>> /\ loc.stream.last = "error"
    /\ reports' = <<Report(loc.stream.err, undefined)>>
    /\ pc' = "done"
    /\ UNCHANGED <<call, client, dir, sessions, log, loc>>

\* .on('end', () => resolve(result))
P_read_end ==
    /\ call.impl = "promise" /\ pc = "read_stream"
    /\ loc.stream.entries = <<>> /\ loc.stream.last = "end"

P_read_onEnd ==
    /\ P_read_end /\ call.op = "read"
    /\ reports' = <<Report(NoError, "result")>>
    /\ pc' = "done"
    /\ UNCHANGED <<call, client, dir, sessions, log, loc>>

(***************************************************************************)
(* The server's side of modify, modifyDN and del.                          *)
(***************************************************************************)
RECURSIVE ApplyChanges(_, _)
ApplyChanges(obj, chs) ==
    IF chs = <<>> THEN obj
    ELSE LET c == Head(chs)
         IN  ApplyChanges([obj EXCEPT ![c.attr] = IF c.operation = "delete"
                                                  THEN undefined ELSE c.value],
                          Tail(chs))

\* the answers to a request that targets the entry at dn: success only when
\* the directory holds such an entry
TargetAnswers(d, dn) ==
    IF Holding(d, dn) = {} THEN TransportErrors(dn) ELSE Answers(dn)

Modified(d, dn, chs) ==
    [i \in DOMAIN d |->
        IF i \in Holding(d, dn)
        THEN [d[i] EXCEPT !.object = ApplyChanges(@, chs)] ELSE d[i]]

\* a rename succeeds only when no other live entry holds the new DN
RenameAnswers(d, dn, to) ==
    IF Holding(d, dn) = {} \/ Holding(d, to) \ Holding(d, dn) # {}
    THEN TransportErrors(dn) ELSE Answers(dn)

\* an add succeeds only when no live entry holds the DN
AddAnswers(d, dn) ==
    IF Holding(d, dn) # {} THEN TransportErrors(dn) ELSE Answers(dn)

Added(d, dn, e) ==
    Append(d, [exists |-> TRUE, object |-> [e EXCEPT !.dn = dn, !.controls = "[]"]])

Renamed(d, dn, to) ==
    [i \in DOMAIN d |->
        IF i \in Holding(d, dn) THEN [d[i] EXCEPT !.object.dn = to] ELSE d[i]]

Deleted(d, dn) ==
    [i \in DOMAIN d |->
        IF i \in Holding(d, dn) THEN [d[i] EXCEPT !.exists = FALSE] ELSE d[i]]

(***************************************************************************)
(* update                                                                  *)
(***************************************************************************)
ChangeTypes == {"replace", "delete"}
ChangeAttrs == {"sn", "givenName", "mail"}
ChangeValues == {"Smith", undefined}

ChangeItems ==
    {[type |-> t, attr |-> a, value |-> v] :
        t \in ChangeTypes, a \in ChangeAttrs, v \in ChangeValues}

ChangeLists == UNION {[1..n -> ChangeItems] : n \in 0..MaxChanges}

UpdateFilters == {"(uid=valid)"}

update_attrs(chs) == [k \in DOMAIN chs |-> chs[k].attr]

\* If givenName or sn are changed, rename entry
update_rename(attrs) == \E k \in DOMAIN attrs : attrs[k] \in {"givenName", "sn"}

\* changedAttrs.find((a) => (a.attr === name)): the first such item
update_find(chs, name) ==
    LET hits == {k \in DOMAIN chs : chs[k].attr = name}
    IN  IF hits = {} THEN {} ELSE {chs[CHOOSE k \in hits : \A h \in hits : k <= h]}

\* the value of name the full name is built from
update_name(chs, user, name) ==
    LET found == update_find(chs, name)
    IN  IF found # {} THEN (CHOOSE it \in found : TRUE).value ELSE user[name]

update_fullName(chs, user) ==
    Str(update_name(chs, user, "givenName")) \o " " \o Str(update_name(chs, user, "sn"))

update_displayName(chs, user) ==
    [type |-> "replace", attr |-> "displayName", value |-> update_fullName(chs, user)]

update_newDN(chs, user) == "CN=" \o update_fullName(chs, user) \o "," \o baseDN

\* the request's value, whatever the type of the change
update_value_literal(item, user) == item.value

\* the value a change is made with
update_value(item, user) == IF item.type = "delete" THEN user[item.attr] ELSE item.value

\* the forEach that builds `changes`
update_changes(chs, user) ==
    LET kept == SelectSeq(chs, LAMBDA it : ~isUndefined(update_value(it, user)))
    IN  [k \in DOMAIN kept |->
            [operation |-> kept[k].type, attr |-> kept[k].attr,
             value |-> update_value(kept[k], user)]]

update_modify(s, dn, chs) ==
    [NoReq EXCEPT !.kind = "modify", !.sess = s, !.dn = dn, !.changes = chs]

update_modifyDN(s, dn, to) ==
    [NoReq EXCEPT !.kind = "modifyDN", !.sess = s, !.dn = dn, !.newDN = to]

\* ---- promise implementation ----

P_update ==
    /\ CanCall
    /\ \E f \in UpdateFilters, chs \in ChangeLists :
         LET attrs == update_attrs(chs)
             ren == update_rename(attrs)
             o == [filter |-> f, scope |-> undefined,
                   attributes |-> IF ren THEN attrs \o <<"givenName", "sn">> ELSE attrs]
         IN  /\ Begin([NoCall EXCEPT !.impl = "promise", !.op = "update",
                                     !.filter = f, !.changedAttrs = chs])
             /\ loc' = [NoLoc EXCEPT !.changedAttrs = chs, !.rename = ren,
                                     !.options = read_options(o)]
             /\ P_read_begin(o)

\* the .then of read in update, run when read's promise resolves: a property
\* read from users[0] when users is empty throws, which rejects the promise
P_update_onRead ==
    /\ P_read_end /\ call.op = "update"
    /\ LET us == loc.result
           found == us # <<>>
           user == IF found THEN us[1] ELSE NoEntry
           throwsName == loc.rename /\ ~found
                         /\ (update_find(loc.changedAttrs, "sn") = {}
                             \/ update_find(loc.changedAttrs, "givenName") = {})
           chs == IF loc.rename
                  THEN Append(loc.changedAttrs, update_displayName(loc.changedAttrs, user))
                  ELSE loc.changedAttrs
           dnTo == IF loc.rename THEN update_newDN(loc.changedAttrs, user) ELSE "false"
           throwsValue == ~found /\ \E k \in DOMAIN chs : chs[k].type = "delete"
           changes == update_changes(chs, user)
       IN  IF throwsName
           THEN /\ reports' = <<Report(TypeError, undefined)>>
                /\ pc' = "done"
                /\ loc' = [loc EXCEPT !.users = us]
                /\ UNCHANGED log
           ELSE /\ loc' = [loc EXCEPT !.users = us, !.changedAttrs = chs,
                                      !.newDN = dnTo,
                                      !.changes = IF throwsValue THEN <<>> ELSE changes]
                /\ IF throwsValue
                   THEN /\ reports' = <<Report(TypeError, undefined)>>
                        /\ pc' = "done"
                        /\ UNCHANGED log
                   ELSE IF changes = <<>>
                   THEN /\ reports' = <<Report(NoError, "true")>>
                        /\ pc' = "done"
                        /\ UNCHANGED log
                   ELSE IF ~found
                   THEN /\ reports' = <<Report(TypeError, undefined)>>
                        /\ pc' = "done"
                        /\ UNCHANGED log
                   ELSE /\ log' = Append(log, update_modify(client, user.dn, changes))
                        /\ pc' = "update_modify"
                        /\ UNCHANGED reports
    /\ UNCHANGED <<call, client, dir, sessions>>

\* what the callback of this.client.modify does with its err
update_afterModify_ignoringErr(err, ren) ==
    IF ~ren THEN "resolve" ELSE "modifyDN"

update_afterModify(err, ren) ==
    IF err # NoError THEN "reject"
    ELSE IF ~ren THEN "resolve" ELSE "modifyDN"

\* the callback of this.client.modify
P_update_onModify ==
    /\ call.impl = "promise" /\ pc = "update_modify"
    /\ LET i == Len(log)
           user == loc.users[1]
       IN  \E err \in TargetAnswers(dir, log[i].dn) :
             LET then == update_afterModify(err, loc.rename)
             IN  /\ dir' = IF err = NoError
                           THEN Modified(dir, log[i].dn, log[i].changes) ELSE dir
                 /\ log' = IF then = "modifyDN"
                           THEN Append(Answered(i, err),
                                       update_modifyDN(client, user.dn, loc.newDN))
                           ELSE Answered(i, err)
                 /\ reports' = IF then = "reject" THEN <<Report(err, undefined)>>
                               ELSE IF then = "resolve" THEN <<Report(NoError, "true")>>
                               ELSE reports
                 /\ pc' = IF then = "modifyDN" THEN "update_modifyDN" ELSE "done"
    /\ UNCHANGED <<call, client, sessions, loc>>

\* the callback of this.client.modifyDN
P_update_onModifyDN ==
    /\ call.impl = "promise" /\ pc = "update_modifyDN"
    /\ LET i == Len(log)
       IN  \E err \in RenameAnswers(dir, log[i].dn, log[i].newDN) :
             /\ log' = Answered(i, err)
             /\ IF err # NoError
                THEN /\ reports' = <<Report(err, undefined)>>
                     /\ UNCHANGED dir
                ELSE /\ reports' = <<Report(NoError, "true")>>
                     /\ dir' = Renamed(dir, log[i].dn, log[i].newDN)
    /\ pc' = "done"
    /\ UNCHANGED <<call, client, sessions, loc>>

\* ---- callback implementation ----

C_update ==
    /\ CanCall
    /\ \E f \in UpdateFilters, chs \in ChangeLists :
         LET attrs == update_attrs(chs)
             o == [filter |-> f, scope |-> undefined, attributes |-> attrs]
         IN  /\ Begin([NoCall EXCEPT !.impl = "callback", !.op = "update",
                                     !.filter = f, !.changedAttrs = chs])
             /\ IF chs = <<>>
                THEN /\ reports' = <<Report(JsError("Error"), undefined)>>
                     /\ pc' = "done"
                     /\ log' = <<>>
                     /\ loc' = [NoLoc EXCEPT !.changedAttrs = chs]
                     /\ UNCHANGED <<client, dir, sessions>>
                ELSE /\ loc' = [NoLoc EXCEPT !.changedAttrs = chs,
                                             !.rename = update_rename(attrs),
                                             !.options = o]
                     /\ C_read_begin(o)

\* read's 'end' handler calling update's callback: the second createClient
C_update_onRead ==
    /\ C_read_end /\ call.op = "update"
    /\ sessions' = Append([sessions EXCEPT ![loc.cur] = "unbound"], "binding")
    /\ log' = Append(log, C_createClient_bind(userDN, password))
    /\ loc' = [loc EXCEPT !.users = loc.result]
    /\ pc' = "update_bind"
    /\ UNCHANGED <<call, client, dir, reports>>

\* the callback update hands to createClient.  After a failed bind
\* createClient passes no client, and client.unbind() throws; a property read
\* from users[0] when users is empty throws as well.  An exception thrown
\* here is caught by nobody: callback is not called.
C_update_onBind ==
    /\ call.impl = "callback" /\ pc = "update_bind"
    /\ LET i == Len(log)
           s == log[i].sess
           found == loc.users # <<>>
           user == IF found THEN loc.users[1] ELSE NoEntry
           chs == loc.changedAttrs
           throwsValue == ~found /\ \E k \in DOMAIN chs : chs[k].type = "delete"
           changes == update_changes(chs, user)
       IN  \E err \in Answers("") :
             /\ sessions' = createClient_onBind(s, err)
             /\ IF err # NoError \/ throwsValue
                THEN /\ log' = Answered(i, err)
                     /\ pc' = "done"
                     /\ UNCHANGED <<reports, loc>>
                ELSE /\ loc' = [loc EXCEPT !.cur = s, !.changes = changes]
                     /\ IF changes = <<>>
                        THEN /\ log' = Answered(i, err)
                             /\ reports' = <<Report(NoError, undefined)>>
                             /\ pc' = "done"
                        ELSE IF ~found
                        THEN /\ log' = Answered(i, err)
                             /\ pc' = "done"
                             /\ UNCHANGED reports
                        ELSE /\ log' = Append(Answered(i, err),
                                              update_modify(s, user.dn, changes))
                             /\ pc' = "update_modify"
                             /\ UNCHANGED reports
    /\ UNCHANGED <<call, client, dir>>

\* the callback of client.modify
C_update_onModify ==
    /\ call.impl = "callback" /\ pc = "update_modify"
    /\ LET i == Len(log)
       IN  \E err \in TargetAnswers(dir, log[i].dn) :
             /\ log' = Answered(i, err)
             /\ IF err # NoError
                THEN /\ reports' = <<Report(err, undefined)>>
                     /\ UNCHANGED dir
                ELSE /\ reports' = <<Report(NoError, undefined)>>
                     /\ dir' = Modified(dir, log[i].dn, log[i].changes)
    /\ pc' = "done"
    /\ UNCHANGED <<call, client, sessions, loc>>

(***************************************************************************)
(* delete                                                                  *)
(***************************************************************************)
delete_del(s, dn) == [NoReq EXCEPT !.kind = "del", !.sess = s, !.dn = dn]

FilterOptions(f) == [filter |-> f, scope |-> undefined, attributes |-> NoAttributes]

\* Promise.all over the requests sent together: it rejects with the first
\* error to arrive and resolves once every request has succeeded
all_settle(i, err) ==
    IF reports # <<>> THEN reports
    ELSE IF err # NoError THEN <<Report(err, undefined)>>
    ELSE IF Pending = {i} THEN <<Report(NoError, "true")>>
    ELSE reports

\* ---- promise implementation ----

P_delete ==
    /\ CanCall
    /\ \E f \in Filters :
         /\ Begin([NoCall EXCEPT !.impl = "promise", !.op = "delete", !.filter = f])
         /\ loc' = [NoLoc EXCEPT !.options = read_options(FilterOptions(f))]
         /\ P_read_begin(FilterOptions(f))

\* the .then of read in delete: one del per user, all sent before any answer
P_delete_onRead ==
    /\ P_read_end /\ call.op = "delete"
    /\ LET us == loc.result
       IN  /\ loc' = [loc EXCEPT !.users = us]
           /\ log' = log \o [k \in DOMAIN us |-> delete_del(client, us[k].dn)]
           /\ IF us = <<>>
              THEN reports' = <<Report(NoError, "true")>> /\ pc' = "done"
              ELSE reports' = <<>> /\ pc' = "delete_del"
    /\ UNCHANGED <<call, client, dir, sessions>>

\* the callback of one this.client.del
P_delete_onDel ==
    /\ call.impl = "promise" /\ pc = "delete_del"
    /\ \E i \in Pending :
         \E err \in TargetAnswers(dir, log[i].dn) :
            /\ log' = Answered(i, err)
            /\ dir' = IF err = NoError THEN Deleted(dir, log[i].dn) ELSE dir
            /\ reports' = all_settle(i, err)
            /\ pc' = IF Pending = {i} THEN "done" ELSE pc
    /\ UNCHANGED <<call, client, sessions, loc>>

\* ---- callback implementation ----

C_delete ==
    /\ CanCall
    /\ \E f \in Filters :
         /\ Begin([NoCall EXCEPT !.impl = "callback", !.op = "delete", !.filter = f])
         /\ IF Falsy(f)
            THEN /\ reports' = <<Report(JsError("Error"), undefined)>>
                 /\ pc' = "done"
                 /\ log' = <<>>
                 /\ loc' = NoLoc
                 /\ UNCHANGED <<client, dir, sessions>>
            ELSE /\ loc' = [NoLoc EXCEPT !.options = FilterOptions(f)]
                 /\ C_read_begin(FilterOptions(f))

\* read's 'end' handler calling delete's callback: the second createClient
C_delete_onRead ==
    /\ C_read_end /\ call.op = "delete"
    /\ sessions' = Append([sessions EXCEPT ![loc.cur] = "unbound"], "binding")
    /\ log' = Append(log, C_createClient_bind(userDN, password))
    /\ loc' = [loc EXCEPT !.users = loc.result]
    /\ pc' = "delete_bind"
    /\ UNCHANGED <<call, client, dir, reports>>

\* the callback delete hands to createClient: users[0].dn throws when users
\* is empty, and callback is not called
C_delete_onBind ==
    /\ call.impl = "callback" /\ pc = "delete_bind"
    /\ LET i == Len(log)
           s == log[i].sess
       IN  \E err \in Answers("") :
             /\ sessions' = createClient_onBind(s, err)
             /\ IF err # NoError
                THEN /\ log' = Answered(i, err)
                     /\ reports' = <<Report(err, undefined)>>
                     /\ pc' = "done"
                     /\ UNCHANGED loc
                ELSE IF loc.users = <<>>
                THEN /\ log' = Answered(i, err)
                     /\ pc' = "done"
                     /\ UNCHANGED <<reports, loc>>
                ELSE /\ log' = Append(Answered(i, err), delete_del(s, loc.users[1].dn))
                     /\ loc' = [loc EXCEPT !.cur = s]
                     /\ pc' = "delete_del"
                     /\ UNCHANGED reports
    /\ UNCHANGED <<call, client, dir>>

\* the callback of client.del
C_delete_onDel ==
    /\ call.impl = "callback" /\ pc = "delete_del"
    /\ LET i == Len(log)
       IN  \E err \in TargetAnswers(dir, log[i].dn) :
             /\ log' = Answered(i, err)
             /\ IF err # NoError
                THEN /\ reports' = <<Report(err, undefined)>>
                     /\ UNCHANGED dir
                ELSE /\ reports' = <<Report(NoError, undefined)>>
                     /\ dir' = Deleted(dir, log[i].dn)
    /\ pc' = "done"
    /\ UNCHANGED <<call, client, sessions, loc>>

(***************************************************************************)
(* move                                                                    *)
(***************************************************************************)
MoveDNs == {undefined, "OU=Moved,DC=Company,DC=local"}

\* a target that is the entry's own DN when no new DN is given
P_move_target_stay(u, to) ==
    IF Falsy(to) THEN u.dn ELSE "cn=" \o Str(u.cn) \o "," \o to

\* promise move: the DN an entry is moved to
P_move_target(u, to) == "cn=" \o Str(u.cn) \o "," \o (IF Falsy(to) THEN u.dn ELSE to)

\* callback move: the DN the first entry is moved to
C_move_target(u, to) == IF Falsy(to) THEN u.cn ELSE "cn=" \o Str(u.cn) \o "," \o to

move_modifyDN(s, dn, to) ==
    [NoReq EXCEPT !.kind = "modifyDN", !.sess = s, !.dn = dn, !.newDN = to]

\* ---- promise implementation ----

P_move ==
    /\ CanCall
    /\ \E f \in Filters, to \in MoveDNs :
         /\ Begin([NoCall EXCEPT !.impl = "promise", !.op = "move", !.filter = f,
                                 !.newDN = to])
         /\ loc' = [NoLoc EXCEPT !.options = read_options(FilterOptions(f))]
         /\ P_read_begin(FilterOptions(f))

\* the .then of read in move: one movePromise per user; the ones whose
\* target is their DN resolve at once, the others send a modifyDN
P_move_onRead ==
    /\ P_read_end /\ call.op = "move"
    /\ LET us == loc.result
           moved == SelectSeq(us, LAMBDA u : u.dn # P_move_target(u, call.newDN))
       IN  /\ loc' = [loc EXCEPT !.users = us]
           /\ log' = log \o [k \in DOMAIN moved |->
                                move_modifyDN(client, moved[k].dn,
                                              P_move_target(moved[k], call.newDN))]
           /\ IF moved = <<>>
              THEN reports' = <<Report(NoError, "true")>> /\ pc' = "done"
              ELSE reports' = <<>> /\ pc' = "move_modifyDN"
    /\ UNCHANGED <<call, client, dir, sessions>>

\* the callback of one this.client.modifyDN
P_move_onModifyDN ==
    /\ call.impl = "promise" /\ pc = "move_modifyDN"
    /\ \E i \in Pending :
         \E err \in RenameAnswers(dir, log[i].dn, log[i].newDN) :
            /\ log' = Answered(i, err)
            /\ dir' = IF err = NoError THEN Renamed(dir, log[i].dn, log[i].newDN) ELSE dir
            /\ reports' = all_settle(i, err)
            /\ pc' = IF Pending = {i} THEN "done" ELSE pc
    /\ UNCHANGED <<call, client, sessions, loc>>

\* ---- callback implementation ----

C_move ==
    /\ CanCall
    /\ \E f \in Filters, to \in MoveDNs :
         /\ Begin([NoCall EXCEPT !.impl = "callback", !.op = "move", !.filter = f,
                                 !.newDN = to])
         /\ IF Falsy(f)
            THEN /\ reports' = <<Report(JsError("Error"), undefined)>>
                 /\ pc' = "done"
                 /\ log' = <<>>
                 /\ loc' = NoLoc
                 /\ UNCHANGED <<client, dir, sessions>>
            ELSE /\ loc' = [NoLoc EXCEPT !.options = FilterOptions(f)]
                 /\ C_read_begin(FilterOptions(f))

\* read's 'end' handler calling move's callback: user.cn throws when users
\* is empty, and callback is not called
C_move_onRead ==
    /\ C_read_end /\ call.op = "move"
    /\ IF loc.result = <<>>
       THEN /\ sessions' = [sessions EXCEPT ![loc.cur] = "unbound"]
            /\ loc' = [loc EXCEPT !.users = loc.result]
            /\ pc' = "done"
            /\ UNCHANGED log
       ELSE /\ sessions' = Append([sessions EXCEPT ![loc.cur] = "unbound"], "binding")
            /\ log' = Append(log, C_createClient_bind(userDN, password))
            /\ loc' = [loc EXCEPT !.users = loc.result,
                                  !.newDN = C_move_target(loc.result[1], call.newDN)]
            /\ pc' = "move_bind"
    /\ UNCHANGED <<call, client, dir, reports>>

\* the callback move hands to createClient
C_move_onBind ==
    /\ call.impl = "callback" /\ pc = "move_bind"
    /\ LET i == Len(log)
           s == log[i].sess
       IN  \E err \in Answers("") :
             /\ sessions' = createClient_onBind(s, err)
             /\ IF err # NoError
                THEN /\ log' = Answered(i, err)
                     /\ reports' = <<Report(err, undefined)>>
                     /\ pc' = "done"
                     /\ UNCHANGED loc
                ELSE /\ log' = Append(Answered(i, err),
                                      move_modifyDN(s, loc.users[1].dn, loc.newDN))
                     /\ loc' = [loc EXCEPT !.cur = s]
                     /\ pc' = "move_modifyDN"
                     /\ UNCHANGED reports
    /\ UNCHANGED <<call, client, dir>>

\* the callback of client.modifyDN
C_move_onModifyDN ==
    /\ call.impl = "callback" /\ pc = "move_modifyDN"
    /\ LET i == Len(log)
       IN  \E err \in RenameAnswers(dir, log[i].dn, log[i].newDN) :
             /\ log' = Answered(i, err)
             /\ IF err # NoError
                THEN /\ reports' = <<Report(err, undefined)>>
                     /\ UNCHANGED dir
                ELSE /\ reports' = <<Report(NoError, undefined)>>
                     /\ dir' = Renamed(dir, log[i].dn, log[i].newDN)
    /\ pc' = "done"
    /\ UNCHANGED <<call, client, sessions, loc>>

(***************************************************************************)
(* create                                                                  *)
(***************************************************************************)
CreateEntries ==
    {[NoEntry EXCEPT !.sn = sn, !.givenName = gn, !.displayName = dis,
                     !.dn = rel, !.sAMAccountName = sam, !.cn = cn] :
        sn \in {undefined, "User"}, gn \in {undefined, "", "Test"},
        dis \in {undefined, "Shown Name"}, rel \in {undefined, "OU=Sub"},
        sam \in {undefined, "testUser"}, cn \in {undefined, "Given Cn"}}

\* a check of the surname alone
create_invalid_snonly(e) == Falsy(e.sn)

create_invalid(e) == Falsy(e.sn) \/ Falsy(e.givenName)

create_displayName(e) ==
    IF Falsy(e.displayName) THEN Str(e.givenName) \o " " \o Str(e.sn)
    ELSE e.displayName

\* a DN that leaves the relative path out
create_dn_norel(e) == "CN=" \o create_displayName(e) \o "," \o baseDN

create_dn(e) ==
    "CN=" \o create_displayName(e)
          \o (IF Falsy(e.dn) THEN "," ELSE "," \o e.dn \o ",") \o baseDN

\* derived attributes that leave a cn given by the caller in place
create_entry_keepcn(e) ==
    [e EXCEPT !.displayName = create_displayName(e),
              !.cn = IF Falsy(e.cn) THEN create_displayName(e) ELSE e.cn,
              !.name = create_displayName(e),
              !.distinguishedName = create_dn(e),
              !.userPrincipalName = Str(e.sAMAccountName) \o suffix]

\* the entry after create has filled in the derived attributes
create_entry(e) ==
    [e EXCEPT !.displayName = create_displayName(e),
              !.cn = create_displayName(e),
              !.name = create_displayName(e),
              !.distinguishedName = create_dn(e),
              !.userPrincipalName = Str(e.sAMAccountName) \o suffix]

create_add(s, e) ==
    [NoReq EXCEPT !.kind = "add", !.sess = s, !.dn = create_dn(e),
                  !.entry = create_entry(e)]

\* ---- promise implementation ----

P_create ==
    /\ CanCall
    /\ \E e \in CreateEntries :
         /\ Begin([NoCall EXCEPT !.impl = "promise", !.op = "create", !.entry = e])
         /\ IF create_invalid(e)
            THEN /\ reports' = <<Report(JsError("ReferenceError"), undefined)>>
                 /\ pc' = "done"
                 /\ log' = <<>>
                 /\ loc' = [NoLoc EXCEPT !.entry = e]
            ELSE /\ loc' = [NoLoc EXCEPT !.entry = create_entry(e)]
                 /\ IF HasClient
                    THEN /\ log' = <<create_add(client, e)>>
                         /\ reports' = <<>>
                         /\ pc' = "create_add"
                    ELSE /\ log' = <<>>
                         /\ reports' = <<Report(TypeError, undefined)>>
                         /\ pc' = "done"
    /\ UNCHANGED <<client, dir, sessions>>

\* the callback of this.client.add
P_create_onAdd ==
    /\ call.impl = "promise" /\ pc = "create_add"
    /\ LET i == Len(log)
       IN  \E err \in AddAnswers(dir, log[i].dn) :
             /\ log' = Answered(i, err)
             /\ IF err # NoError
                THEN /\ reports' = <<Report(err, undefined)>>
                     /\ UNCHANGED dir
                ELSE /\ reports' = <<Report(NoError, "entry")>>
                     /\ dir' = Added(dir, log[i].dn, log[i].entry)
    /\ pc' = "done"
    /\ UNCHANGED <<call, client, sessions, loc>>

\* ---- callback implementation ----

C_create ==
    /\ CanCall
    /\ \E e \in CreateEntries :
         /\ Begin([NoCall EXCEPT !.impl = "callback", !.op = "create", !.entry = e])
         /\ loc' = [NoLoc EXCEPT !.entry = e]
         /\ IF e = NoEntry \/ create_invalid(e)
            THEN /\ reports' = <<Report(JsError("Error"), undefined)>>
                 /\ pc' = "done"
                 /\ log' = <<>>
                 /\ UNCHANGED sessions
            ELSE /\ sessions' = Append(sessions, "binding")
                 /\ log' = <<C_createClient_bind(userDN, password)>>
                 /\ reports' = <<>>
                 /\ pc' = "create_bind"
    /\ UNCHANGED <<client, dir>>

\* the callback create hands to createClient
C_create_onBind ==
    /\ call.impl = "callback" /\ pc = "create_bind"
    /\ LET i == Len(log)
           s == log[i].sess
       IN  \E err \in Answers("") :
             /\ sessions' = createClient_onBind(s, err)
             /\ IF err # NoError
                THEN /\ log' = Answered(i, err)
                     /\ reports' = <<Report(err, undefined)>>
                     /\ pc' = "done"
                     /\ UNCHANGED loc
                ELSE /\ log' = Append(Answered(i, err), create_add(s, loc.entry))
                     /\ loc' = [loc EXCEPT !.entry = create_entry(@), !.cur = s]
                     /\ pc' = "create_add"
                     /\ UNCHANGED reports
    /\ UNCHANGED <<call, client, dir>>

\* the callback of client.add
C_create_onAdd ==
    /\ call.impl = "callback" /\ pc = "create_add"
    /\ LET i == Len(log)
       IN  \E err \in AddAnswers(dir, log[i].dn) :
             /\ log' = Answered(i, err)
             /\ IF err # NoError
                THEN /\ reports' = <<Report(err, undefined)>>
                     /\ UNCHANGED dir
                ELSE /\ reports' = <<Report(NoError, undefined)>>
                     /\ dir' = Added(dir, log[i].dn, log[i].entry)
    /\ pc' = "done"
    /\ UNCHANGED <<call, client, sessions, loc>>

(***************************************************************************)
(* convertModel                                                            *)
(***************************************************************************)
\* config.model as documented: pairs <<LDAP property, user model field>> in
\* the order of the object's keys
model ==
    << <<"sAMAccountName", "ldap">>, <<"mail", "email">>,
       <<"sn", "name.last">>, <<"givenName", "name.first">> >>

\* a configuration without model
NoModel == <<>>

\* the mapping tables an instance is configured with
Models ==
    {NoModel, model, SubSeq(model, 2, 3),
     << <<"cn", "name">>, <<"displayName", "name">> >>}

\* a JS object: a function from its own keys to their values
EmptyObject == [k \in {} |-> undefined]

Get(data, c) == IF c \in DOMAIN data THEN data[c] ELSE undefined

Put(a, k, v) == [x \in DOMAIN a \cup {k} |-> IF x = k THEN v ELSE a[x]]

\* the user records handed to convertModel(data, true): any of these fields
\* may be missing
DataFields == {"ldap", "email", "name.last", "name.first", "name", "age"}

DataValue(f) ==
    CASE f = "ldap" -> "jdoe"
      [] f = "email" -> "johndoe@mail.com"
      [] f = "name.last" -> "Doe"
      [] f = "name.first" -> "John"
      [] f = "name" -> "John Doe"
      [] OTHER -> "42"

DataRecords == {[f \in D |-> DataValue(f)] : D \in SUBSET DataFields}

keys(m) == [i \in DOMAIN m |-> m[i][1]]

values(m) == [i \in DOMAIN m |-> m[i][2]]

\* input.reduce((a, c, i) => { a[output[i]] = data[c]; return a; }, {}),
\* after its first n steps
RECURSIVE P_convertModel_reduce(_, _, _, _)
P_convertModel_reduce(input, output, data, n) ==
    IF n = 0 THEN EmptyObject
    ELSE Put(P_convertModel_reduce(input, output, data, n - 1),
             output[n], Get(data, input[n]))

\* promise convertModel
P_convertModel(m, data, toLdapModel) ==
    IF m = NoModel THEN JsError("ReferenceError")
    ELSE LET input == IF toLdapModel THEN values(m) ELSE keys(m)
             output == IF toLdapModel THEN keys(m) ELSE values(m)
         IN  P_convertModel_reduce(input, output, data, Len(input))

\* for (let i = input.length - 1; i >= 0; i--) result[output[i]] =
\* data[input[i]], from position j (counted from 1) down to the first
RECURSIVE C_convertModel_loop(_, _, _, _)
C_convertModel_loop(input, output, data, j) ==
    IF j > Len(input) THEN EmptyObject
    ELSE Put(C_convertModel_loop(input, output, data, j + 1),
             output[j], Get(data, input[j]))

\* JSON.parse(JSON.stringify(result)) on an object of strings and
\* undefined: the keys whose value is undefined are left out
JSON_copy(result) ==
    [k \in {x \in DOMAIN result : result[x] # undefined} |-> result[k]]

\* callback convertModel
C_convertModel(m, data, toLdapModel) ==
    IF m = NoModel THEN JsError("Error")
    ELSE LET input == IF toLdapModel THEN values(m) ELSE keys(m)
             output == IF toLdapModel THEN keys(m) ELSE values(m)
         IN  JSON_copy(C_convertModel_loop(input, output, data, 1))

\* ---- promise implementation ----

\* ldap.convertModel(user, true) on an instance configured with model m
P_convertModel_toLdap ==
    /\ CanCall
    /\ \E m \in Models, data \in DataRecords :
         /\ Begin([NoCall EXCEPT !.impl = "promise", !.op = "convertModel",
                                 !.model = m, !.data = data])
         /\ loc' = [NoLoc EXCEPT !.ldapModel = P_convertModel(m, data, TRUE)]
    /\ log' = <<>>
    /\ reports' = <<>>
    /\ pc' = "convertModel_back"
    /\ UNCHANGED <<client, dir, sessions>>

\* ldap.convertModel(ldapModel) on what the first conversion returned
P_convertModel_toNode ==
    /\ call.impl = "promise" /\ pc = "convertModel_back"
    /\ loc' = [loc EXCEPT !.nodeModel = P_convertModel(call.model, loc.ldapModel, FALSE)]
    /\ pc' = "done"
    /\ UNCHANGED <<call, client, dir, log, reports, sessions>>

\* ---- callback implementation ----

C_convertModel_toLdap ==
    /\ CanCall
    /\ \E m \in Models, data \in DataRecords :
         /\ Begin([NoCall EXCEPT !.impl = "callback", !.op = "convertModel",
                                 !.model = m, !.data = data])
         /\ loc' = [NoLoc EXCEPT !.ldapModel = C_convertModel(m, data, TRUE)]
    /\ log' = <<>>
    /\ reports' = <<>>
    /\ pc' = "convertModel_back"
    /\ UNCHANGED <<client, dir, sessions>>

C_convertModel_toNode ==
    /\ call.impl = "callback" /\ pc = "convertModel_back"
    /\ loc' = [loc EXCEPT !.nodeModel = C_convertModel(call.model, loc.ldapModel, FALSE)]
    /\ pc' = "done"
    /\ UNCHANGED <<call, client, dir, log, reports, sessions>>

(***************************************************************************)
(* init (promise implementation)                                           *)
(***************************************************************************)
\* init(): createClient() binds as the service user
P_init ==
    /\ pc = "idle"
    /\ Begin([NoCall EXCEPT !.impl = "promise", !.op = "init"])
    /\ sessions' = Append(sessions, "binding")
    /\ log' = <<P_createClient_bind(undefined, undefined)>>
    /\ reports' = <<>>
    /\ pc' = "init_bind"
    /\ loc' = NoLoc
    /\ UNCHANGED <<client, dir>>

\* the bind callback inside createClient and init's .then chain.  The
\* executor names its first parameter reject and its second resolve, so
\* `reject(err)` fulfils createClient's promise with the error and
\* `resolve(client)` rejects it with the client
P_init_onBind ==
    /\ call.impl = "promise" /\ pc = "init_bind"
    /\ \E err \in Answers("") :
         /\ log' = Answered(1, err)
         /\ sessions' = createClient_onBind(log[1].sess, err)
         /\ IF err # NoError
            THEN /\ client' = ErrClient
                 /\ reports' = <<Report(NoError, "this")>>
            ELSE /\ reports' = <<Report(ClientObject, undefined)>>
                 /\ UNCHANGED client
    /\ pc' = "done"
    /\ UNCHANGED <<call, dir, loc>>

Next ==
    \/ C_authenticate
    \/ C_authenticate_onBind
    \/ P_authenticate
    \/ P_authenticate_onBind
    \/ C_read
    \/ C_read_onBind
    \/ C_read_onSearch
    \/ read_onSearchEntry
    \/ C_read_onError
    \/ C_read_onEnd
    \/ P_read
    \/ P_read_onSearch
    \/ P_read_onError
    \/ P_read_onEnd
    \/ P_update
    \/ P_update_onRead
    \/ P_update_onModify
    \/ P_update_onModifyDN
    \/ C_update
    \/ C_update_onRead
    \/ C_update_onBind
    \/ C_update_onModify
    \/ P_delete
    \/ P_delete_onRead
    \/ P_delete_onDel
    \/ C_delete
    \/ C_delete_onRead
    \/ C_delete_onBind
    \/ C_delete_onDel
    \/ P_move
    \/ P_move_onRead
    \/ P_move_onModifyDN
    \/ C_move
    \/ C_move_onRead
    \/ C_move_onBind
    \/ C_move_onModifyDN
    \/ P_create
    \/ P_create_onAdd
    \/ C_create
    \/ C_create_onBind
    \/ C_create_onAdd
    \/ P_init
    \/ P_init_onBind
    \/ P_convertModel_toLdap
    \/ P_convertModel_toNode
    \/ C_convertModel_toLdap
    \/ C_convertModel_toNode

Spec == Init /\ [][Next]_vars

(***************************************************************************)
(* Vocabulary of the properties.                                           *)
(***************************************************************************)
Done == pc = "done"

OfKind(k) == {i \in DOMAIN log : log[i].kind = k}

Mutations == OfKind("modify") \cup OfKind("modifyDN") \cup OfKind("del")

CrudOps == {"create", "read", "update", "delete", "move"}

PublicOps == CrudOps \cup {"authenticate"}

\* the search of the operation has ended with 'end' and its handler has run
ReadEnded ==
    /\ pc \notin {"idle", "read_bind", "read_search", "read_stream"}
    /\ \E i \in OfKind("search") : log[i].res = "ok"
    /\ loc.stream.last = "end"

\* the entries the filter resolved to
Resolved == loc.result

\* the change list passed to update names sn or givenName
NamesName == \E k \in DOMAIN call.changedAttrs :
                call.changedAttrs[k].attr \in {"sn", "givenName"}

\* the request's value for an attribute it has a change for, the value held
\* by obj otherwise
RequestedOr(obj, name) ==
    LET ks == {k \in DOMAIN call.changedAttrs : call.changedAttrs[k].attr = name}
    IN  IF ks = {} THEN obj[name]
        ELSE call.changedAttrs[CHOOSE k \in ks : \A h \in ks : k <= h].value

ExpectedFullName(obj) ==
    Str(RequestedOr(obj, "givenName")) \o " " \o Str(RequestedOr(obj, "sn"))

\* the directory entry a request is aimed at
TargetOf(i) == dir[CHOOSE e \in Holding(dir, log[i].dn) : TRUE].object

DisplayNameChanges(i) ==
    {k \in DOMAIN log[i].changes : log[i].changes[k].attr = "displayName"}

(***************************************************************************)
(* C1.  update on an entry the filter resolved: when the change list names *)
(* sn or givenName, the change set sent to modify holds a replace of       *)
(* displayName by "{givenName} {sn}" (the request's value of each name     *)
(* when it has one, the entry's current value otherwise), and once modify  *)
(* has succeeded a modifyDN to "CN={givenName} {sn},{baseDN}" is sent;     *)
(* when the list names neither, no displayName change is added and no      *)
(* modifyDN is sent.                                                       *)
(***************************************************************************)
C1_RenameOnUpdate ==
    call.op = "update" =>
      /\ \A i \in OfKind("modify") :
            log[i].res = "pending" =>
              IF NamesName
              THEN \E k \in DOMAIN log[i].changes :
                     log[i].changes[k] =
                       [operation |-> "replace", attr |-> "displayName",
                        value |-> ExpectedFullName(TargetOf(i))]
              ELSE DisplayNameChanges(i) = {}
      /\ \A i \in OfKind("modifyDN") :
            /\ NamesName
            /\ \E j \in OfKind("modify") :
                 /\ j < i /\ log[j].dn = log[i].dn
                 /\ \E k \in DisplayNameChanges(j) :
                      log[i].newDN = "CN=" \o log[j].changes[k].value \o "," \o baseDN
      /\ (Done /\ ReadEnded /\ Resolved # <<>> /\ NamesName) =>
            /\ OfKind("modify") # {}
            /\ (\A j \in OfKind("modify") : log[j].res = "ok") => OfKind("modifyDN") # {}

\* C1 for the promise implementation alone
C1_RenameOnUpdate_Promise == call.impl = "promise" => C1_RenameOnUpdate

(***************************************************************************)
(* C2.  In update, a modifyDN is sent only after a modify that has         *)
(* succeeded; when modify fails, update fails with modify's error and no   *)
(* modifyDN is sent; when modifyDN fails after modify, update fails with   *)
(* modifyDN's error, nothing more is sent and the entry keeps the          *)
(* attributes modify has written.                                          *)
(***************************************************************************)
C2_ModifyThenRename ==
    call.op = "update" =>
      /\ \A i \in OfKind("modifyDN") :
            \E j \in OfKind("modify") : j < i /\ log[j].res = "ok"
      /\ \A j \in OfKind("modify") :
            log[j].res = "err" =>
              /\ reports = <<Report(log[j].err, undefined)>>
              /\ OfKind("modifyDN") = {}
      /\ \A i \in OfKind("modifyDN") :
            log[i].res = "err" =>
              /\ reports = <<Report(log[i].err, undefined)>>
              /\ i = Len(log)
              /\ \A j \in OfKind("modify") :
                    /\ Holding(dir, log[j].dn) # {}
                    /\ ApplyChanges(TargetOf(j), log[j].changes) = TargetOf(j)

\* a rename that failed after its modify succeeded, the modify having
\* changed the entry
C2_Witness ==
    /\ call.op = "update" /\ Done
    /\ \E i \in OfKind("modifyDN") : log[i].res = "err"
    /\ \E j \in OfKind("modify") :
         /\ log[j].res = "ok"
         /\ \E k \in DOMAIN log[j].changes : log[j].changes[k].attr = "sn"
         /\ TargetOf(j).sn = "Smith"

(***************************************************************************)
(* C3.  authenticate with a non-empty principal and credential attempts a  *)
(* bind and reports true when the bind succeeds, false when it fails with  *)
(* InvalidCredentialsError, and the bind's error otherwise; in both        *)
(* implementations.                                                        *)
(***************************************************************************)
C3_AuthenticateReports ==
    (call.op = "authenticate" /\ Done
       /\ ~Falsy(call.dn) /\ ~Falsy(call.password)) =>
      /\ OfKind("bind") = {1}
      /\ reports =
           <<IF log[1].res = "ok" THEN Report(NoError, "true")
             ELSE IF log[1].err.name = "InvalidCredentialsError"
                  THEN Report(NoError, "false")
             ELSE Report(log[1].err, undefined)>>

(***************************************************************************)
(* C4.  authenticate with an empty or absent principal or credential fails *)
(* with an invalid-credentials error; no client is created and nothing is  *)
(* sent to the transport.                                                  *)
(***************************************************************************)
C4_AuthenticateSkips ==
    (call.op = "authenticate" /\ (Falsy(call.dn) \/ Falsy(call.password))) =>
      /\ Len(reports) = 1
      /\ reports[1].err.code = LDAP_INVALID_CREDENTIALS
      /\ reports[1].err.errno = "LDAP_INVALID_CREDENTIALS"
      /\ log = <<>>
      /\ Len(sessions) = call.base

\* authenticate("cn=valid, ou=ldapcrud", "") has failed
C4_Witness ==
    /\ call.op = "authenticate" /\ Done
    /\ ~Falsy(call.dn) /\ call.password = ""
    /\ reports # <<>> /\ reports[1].err # NoError

(***************************************************************************)
(* C5.  When create, read, update, delete or move reports its outcome,     *)
(* every request it has sent went over a client created during the call,   *)
(* and every client created during the call has been unbound.              *)
(***************************************************************************)
C5_FreshSessionReleased ==
    (call.op \in CrudOps /\ reports # <<>>) =>
      /\ \A i \in DOMAIN log : log[i].sess > call.base
      /\ \A s \in DOMAIN sessions : s > call.base => sessions[s] = "unbound"

(***************************************************************************)
(* C6.  A public operation whose requests have all been answered has       *)
(* reported exactly one outcome.                                           *)
(***************************************************************************)
C6_ReportsOnce ==
    /\ Len(reports) <= 1
    /\ (call.op \in PublicOps /\ Done) => Len(reports) = 1

(***************************************************************************)
(* C7.  delete whose filter resolved to one or more entries has sent, by   *)
(* the time it is over, exactly one del for the DN of each of them (every  *)
(* bind it attempted having succeeded).                                    *)
(***************************************************************************)
C7_DeleteEachEntry ==
    (call.op = "delete" /\ Done /\ ReadEnded /\ Resolved # <<>>
       /\ \A i \in OfKind("bind") : log[i].res = "ok") =>
      \A k \in DOMAIN Resolved :
         Cardinality({i \in OfKind("del") : log[i].dn = Resolved[k].dn}) = 1

(***************************************************************************)
(* C8.  The promise delete reports success exactly when the del of every   *)
(* resolved entry succeeded; otherwise it reports a failure that carries   *)
(* the DN of an entry whose del failed; the entries whose del succeeded    *)
(* are gone from the directory.                                            *)
(***************************************************************************)
C8_DeleteOutcome ==
    (call.impl = "promise" /\ call.op = "delete" /\ Done /\ ReadEnded
       /\ Resolved # <<>>) =>
      /\ Len(reports) = 1
      /\ reports[1].err = NoError <=> \A i \in OfKind("del") : log[i].res = "ok"
      /\ reports[1].err # NoError =>
            \E i \in OfKind("del") :
               log[i].res = "err" /\ reports[1].err.dn = log[i].dn
      /\ \A i \in OfKind("del") : log[i].res = "ok" => Holding(dir, log[i].dn) = {}

(***************************************************************************)
(* C9.  update (with a non-empty change list), delete and move whose       *)
(* filter resolved to no entry fail with a not-found error and send no     *)
(* modify, modifyDN or del.                                                *)
(***************************************************************************)
C9_NotFound ==
    (call.op \in {"update", "delete", "move"} /\ Done /\ ReadEnded
       /\ Resolved = <<>>
       /\ (call.op = "update" => call.changedAttrs # <<>>)) =>
      /\ Len(reports) = 1
      /\ reports[1].err.name \in {"NotFoundError", "NoSuchObjectError"}
      /\ Mutations = {}

\* no mutation request is sent when the filter resolved to no entry
C9_NoMutation ==
    (call.op \in {"update", "delete", "move"} /\ ReadEnded /\ Resolved = <<>>) =>
      Mutations = {}

(***************************************************************************)
(* C10.  update with a non-empty change list whose every change resolves   *)
(* to undefined (a delete of an attribute the entry lacks, or another      *)
(* change without a value) succeeds without sending modify or modifyDN,    *)
(* also when the list names sn or givenName.                               *)
(***************************************************************************)
AllUndefined(user) ==
    \A k \in DOMAIN call.changedAttrs :
       LET it == call.changedAttrs[k]
       IN  IF it.type = "delete" THEN user[it.attr] = undefined
           ELSE it.value = undefined

C10_EmptyChangeSet ==
    (call.op = "update" /\ Done /\ ReadEnded /\ Resolved # <<>>
       /\ call.changedAttrs # <<>> /\ AllUndefined(Resolved[1])) =>
      /\ Len(reports) = 1 /\ reports[1].err = NoError
      /\ OfKind("modify") = {} /\ OfKind("modifyDN") = {}

C12_MutationsValidate ==
    (\/ call.op = "update" /\ call.changedAttrs = <<>>
     \/ call.op \in {"delete", "move"} /\ Falsy(call.filter)) =>
      /\ Done
      /\ Len(reports) = 1
      /\ reports[1].err.name \in {"Error", "ReferenceError"}
      /\ log = <<>>
      /\ Len(sessions) = call.base

\* C12 for the callback implementation alone
C12_MutationsValidate_Callback == call.impl = "callback" => C12_MutationsValidate

\* a reachable state: the promise delete, called without a filter, has
\* deleted every entry the default filter matches
C12_DeletedAll ==
    /\ call.impl = "promise" /\ call.op = "delete" /\ Falsy(call.filter)
    /\ Done /\ Live(dir) = {}

(***************************************************************************)
(* C13.  create of an entry with non-empty sn and givenName: the entry     *)
(* sent to add (the caller's object, which the promise create resolves     *)
(* with) has displayName "{givenName} {sn}" when the caller gave none and  *)
(* the caller's displayName otherwise, and its cn and name both equal that *)
(* displayName whatever cn or name the caller supplied.                    *)
(***************************************************************************)
C13_DisplayNameCnName ==
    (call.op = "create"
       /\ ~Falsy(call.entry.sn) /\ ~Falsy(call.entry.givenName)) =>
      \A i \in OfKind("add") :
         LET e == log[i].entry
         IN  /\ e.displayName =
                  IF call.entry.displayName = undefined
                  THEN call.entry.givenName \o " " \o call.entry.sn
                  ELSE call.entry.displayName
             /\ e.cn = e.displayName
             /\ e.name = e.displayName
             /\ loc.entry = e

\* an entry given with a cn and no displayName has been added
C13_Witness ==
    /\ call.op = "create" /\ Done
    /\ call.entry.cn = "Given Cn" /\ call.entry.displayName = undefined
    /\ \E i \in OfKind("add") :
          log[i].res = "ok" /\ log[i].entry.cn = "Test User"

(***************************************************************************)
(* C14.  create: the DN handed to add is "CN={cn},{dn},{baseDN}" when the  *)
(* entry has a relative dn and "CN={cn},{baseDN}" when it has none, cn     *)
(* being the cn of the entry sent; the distinguishedName attribute of the  *)
(* entry sent is that same string.                                         *)
(***************************************************************************)
C14_CreateDN ==
    call.op = "create" =>
      \A i \in OfKind("add") :
         /\ log[i].dn =
               IF call.entry.dn = undefined
               THEN "CN=" \o log[i].entry.cn \o "," \o baseDN
               ELSE "CN=" \o log[i].entry.cn \o "," \o call.entry.dn
                          \o "," \o baseDN
         /\ log[i].entry.distinguishedName = log[i].dn

\* an entry with the relative dn OU=Sub has been sent to add
C14_Witness ==
    /\ call.op = "create" /\ call.entry.dn = "OU=Sub"
    /\ \E i \in OfKind("add") :
          log[i].dn = "CN=Test User,OU=Sub," \o baseDN

(***************************************************************************)
(* C15.  move: for every entry the filter resolved, the target is          *)
(* "cn={cn},{newBaseDN}" when a new base DN is given and                   *)
(* "cn={cn},{current DN}" when none is, cn being the entry's cn as the     *)
(* search returned it; a modifyDN is only ever sent from an entry's        *)
(* current DN to its target, the two being different; and once move is     *)
(* over (every bind having succeeded), an entry whose target is its        *)
(* current DN has had no modifyDN, every other entry exactly one.          *)
(***************************************************************************)
MoveTarget(u) ==
    "cn=" \o Str(u.cn) \o ","
          \o (IF Falsy(call.newDN) THEN u.dn ELSE call.newDN)

C15_MoveTargets ==
    call.op = "move" =>
      /\ \A i \in OfKind("modifyDN") :
            /\ log[i].newDN # log[i].dn
            /\ \E k \in DOMAIN Resolved :
                  Resolved[k].dn = log[i].dn /\ log[i].newDN = MoveTarget(Resolved[k])
      /\ (Done /\ ReadEnded /\ \A i \in OfKind("bind") : log[i].res = "ok") =>
            \A k \in DOMAIN Resolved :
               Cardinality({i \in OfKind("modifyDN") : log[i].dn = Resolved[k].dn})
                 = IF MoveTarget(Resolved[k]) = Resolved[k].dn THEN 0 ELSE 1

\* C15 for the promise implementation alone
C15_MoveTargets_Promise == call.impl = "promise" => C15_MoveTargets

\* the cn in every target is the cn the entry has in the directory; this
\* fails in both implementations when config.attributes does not list cn,
\* as in the documented configuration: the search returns no cn and the
\* target starts with "cn=undefined"
C15_TargetNamesEntry ==
    call.op = "move" =>
      \A i \in OfKind("modifyDN") :
         log[i].res = "pending" =>
           \E rest \in {call.newDN, log[i].dn} :
              log[i].newDN = "cn=" \o TargetOf(i).cn \o "," \o rest

(***************************************************************************)
(* C16.  Every search sent by read, update, delete or move has the         *)
(* configured baseDN as its base and "(&" + defaultFilter + fragment + ")" *)
(* as its filter, fragment being the caller's filter, or nothing when the  *)
(* caller gave an empty filter or none.                                    *)
(***************************************************************************)
C16_DefaultFilter ==
    \A i \in OfKind("search") :
       /\ call.op \in {"read", "update", "delete", "move"}
       /\ log[i].dn = baseDN
       /\ log[i].filter =
             "(&" \o defaultFilter
                  \o (IF call.filter \in {undefined, ""} THEN "" ELSE call.filter)
                  \o ")"

\* searches have been sent for a call with a filter and for one without
C16_Witness ==
    /\ OfKind("search") # {}
    /\ call.op \in {"update", "move"}
    /\ call.filter = "(uid=valid)"
    /\ \E i \in OfKind("search") : log[i].res = "ok"

C16_Witness_NoFilter ==
    /\ call.op = "read" /\ call.filter = undefined
    /\ \E i \in OfKind("search") : log[i].filter = "(&" \o defaultFilter \o ")"

(***************************************************************************)
(* C17.  For every configured mapping table and every record x,            *)
(* convertModel(convertModel(x, true), false) equals x restricted to the   *)
(* user model fields the table names: the result has exactly the mapped    *)
(* fields x has, each with the value it has in x.                          *)
(***************************************************************************)
Restricted(x, m) ==
    [f \in DOMAIN x \cap {m[i][2] : i \in DOMAIN m} |-> x[f]]

C17_RoundTrip ==
    (call.op = "convertModel" /\ Done /\ call.model # NoModel) =>
      loc.nodeModel = Restricted(call.data, call.model)

\* C17 for the callback implementation alone
C17_RoundTrip_Callback == call.impl = "callback" => C17_RoundTrip

\* the round trip read field by field: every field the table names reads as
\* it does in x, every other field reads undefined
C17_RoundTripValues ==
    (call.op = "convertModel" /\ Done /\ call.model # NoModel) =>
      \A f \in DataFields :
         Get(loc.nodeModel, f) =
           IF \E i \in DOMAIN call.model : call.model[i][2] = f
           THEN Get(call.data, f) ELSE undefined

(***************************************************************************)
(* C18.  Every bind is sent with exactly the principal and credential the  *)
(* caller of createClient supplied, and with the configured userDN and     *)
(* password only when none were supplied: authenticate(p, c) binds as p    *)
(* with c, every other operation binds as the service identity.            *)
(***************************************************************************)
C18_BindIdentity ==
    \A i \in OfKind("bind") :
       IF call.op = "authenticate"
       THEN log[i].dn = call.dn /\ log[i].password = call.password
       ELSE log[i].dn = userDN /\ log[i].password = password

\* C18 for the callback implementation alone
C18_BindIdentity_Callback == call.impl = "callback" => C18_BindIdentity

\* a reachable state: the promise authenticate, given a user's DN and
\* password, has bound as the service identity
C18_BoundAsService ==
    /\ call.impl = "promise" /\ call.op = "authenticate"
    /\ call.dn # userDN /\ call.password # password
    /\ \E i \in OfKind("bind") :
          log[i].res = "ok" /\ log[i].dn = userDN /\ log[i].password = password

(***************************************************************************)
(* C19.  A bind that fails leaves its client unbound.  init() resolves,    *)
(* with this.client set to the session it has bound, exactly when the bind *)
(* succeeded, and rejects with the bind error when the bind failed.        *)
(***************************************************************************)
C19_InitOutcome ==
    /\ \A i \in OfKind("bind") :
          log[i].res = "err" => sessions[log[i].sess] = "unbound"
    /\ (call.op = "init" /\ Done) =>
          IF log[1].res = "ok"
          THEN /\ reports = <<Report(NoError, "this")>>
               /\ client = log[1].sess
               /\ sessions[log[1].sess] = "bound"
          ELSE reports = <<Report(log[1].err, undefined)>>

\* the callback createClient: after a failed bind the client is unbound and
\* nothing more is sent; after a successful one the next request goes over
\* the client it has bound
C19_CreateClient_Callback ==
    call.impl = "callback" =>
      \A i \in OfKind("bind") :
         /\ log[i].res = "err" =>
               sessions[log[i].sess] = "unbound" /\ i = Len(log)
         /\ (log[i].res = "ok" /\ i < Len(log)) => log[i + 1].sess = log[i].sess

(***************************************************************************)
(* C20.  update: the change set sent to modify is built from the requested *)
(* changes in request order, each with the request's operation type; a     *)
(* delete-type change carries the current value of the attribute in the    *)
(* resolved entry, any other change the request's value; a change whose    *)
(* value is undefined is left out; modify targets the DN of the first      *)
(* resolved entry.  As first stated, the change set is exactly these       *)
(* changes.                                                                *)
(***************************************************************************)
PlannedValue(it, obj) == IF it.type = "delete" THEN obj[it.attr] ELSE it.value

Planned(obj) ==
    LET kept == SelectSeq(call.changedAttrs,
                          LAMBDA it : PlannedValue(it, obj) # undefined)
    IN  [k \in DOMAIN kept |->
            [operation |-> kept[k].type, attr |-> kept[k].attr,
             value |-> PlannedValue(kept[k], obj)]]

C20_PlannedChangesOnly ==
    call.op = "update" =>
      \A i \in OfKind("modify") :
         log[i].res = "pending" =>
           /\ log[i].dn = Resolved[1].dn
           /\ log[i].changes = Planned(TargetOf(i))

(***************************************************************************)
(* C20, amended.  The change set sent to modify is the planned changes as  *)
(* above and nothing else, except that a replace of displayName by the new *)
(* full name may follow them as the last change when the list names sn or  *)
(* givenName; modify targets the DN of the first resolved entry.           *)
(***************************************************************************)
C20_PlannedChanges ==
    call.op = "update" =>
      \A i \in OfKind("modify") :
         log[i].res = "pending" =>
           /\ log[i].dn = Resolved[1].dn
           /\ \/ log[i].changes = Planned(TargetOf(i))
              \/ /\ NamesName
                 /\ log[i].changes =
                      Append(Planned(TargetOf(i)),
                             [operation |-> "replace", attr |-> "displayName",
                              value |-> ExpectedFullName(TargetOf(i))])

\* a modify has been sent with a delete carrying the entry's value, one of
\* the two requested changes having been left out
C20_Witness ==
    /\ call.op = "update"
    /\ Len(call.changedAttrs) = 2
    /\ \E i \in OfKind("modify") :
          /\ Len(log[i].changes) = 1
          /\ log[i].changes[1].operation = "delete"
          /\ log[i].changes[1].value \notin ChangeValues

(***************************************************************************)
(* C21.  As first stated: every search has the configured baseDN as its    *)
(* base and 'sub' as its scope, whatever options the caller passes,        *)
(* including options that carry a scope of their own; a search sent for    *)
(* read, delete or move asks for the configured attributes unless the      *)
(* caller of read supplied attributes.                                     *)
(***************************************************************************)
CallerAttributes ==
    IF call.op = "read" /\ call.options.attributes # NoAttributes
    THEN call.options.attributes ELSE attributes

C21_ScopeAlwaysSub ==
    \A i \in OfKind("search") :
       /\ log[i].dn = baseDN
       /\ log[i].scope = "sub"
       /\ call.op # "update" => log[i].attributes = CallerAttributes

(***************************************************************************)
(* C21, amended.  Every search has the configured baseDN as its base; its  *)
(* scope is 'sub' unless the options passed to read carry a scope, which   *)
(* is then the scope sent; the attributes are as above.                    *)
(***************************************************************************)
C21_ScopeDefaultsToSub ==
    \A i \in OfKind("search") :
       /\ log[i].dn = baseDN
       /\ log[i].scope =
             IF call.op = "read" /\ call.options.scope # undefined
             THEN call.options.scope ELSE "sub"
       /\ call.op # "update" => log[i].attributes = CallerAttributes

\* read, given options with scope 'base', has searched with that scope
C21_Witness ==
    /\ call.op = "read" /\ call.options.scope = "base"
    /\ \E i \in OfKind("search") : log[i].scope = "base" /\ log[i].res = "ok"

(***************************************************************************)
(* C22.  read reports a result only after the search's 'end' event; the    *)
(* result then holds exactly the entries the search emitted, in emission   *)
(* order, each without its controls field; a search that ends without     *)
(* having emitted an entry makes read report the empty sequence, not an    *)
(* error.                                                                  *)
(***************************************************************************)
\* the entries taken so far followed by the entries still to be emitted,
\* each as it is to appear in the result
Materialized ==
    loc.result \o [k \in DOMAIN loc.stream.entries |->
                      [loc.stream.entries[k] EXCEPT !.controls = undefined]]

C22_ResultAfterEnd ==
    call.op = "read" =>
      /\ (reports # <<>> /\ reports[1].err = NoError) =>
            /\ \E i \in OfKind("search") : log[i].res = "ok"
            /\ loc.stream.entries = <<>> /\ loc.stream.last = "end"
            /\ reports[1].val \in {"result", "response"}
            /\ \A k \in DOMAIN loc.result : loc.result[k].controls = undefined
      /\ (Done /\ loc.stream.last = "end"
               /\ \E i \in OfKind("search") : log[i].res = "ok") =>
            reports # <<>> /\ reports[1].err = NoError

C22_ResultIsEmitted ==
    /\ pc' = "read_stream" /\ pc # "read_stream" => loc'.result = <<>>
    /\ pc = "read_stream" => Materialized' = Materialized

C22_ReadMaterializes == []C22_ResultAfterEnd /\ [][C22_ResultIsEmitted]_vars

\* read has reported two entries
C22_Witness ==
    /\ call.op = "read" /\ Done
    /\ reports # <<>> /\ reports[1].err = NoError
    /\ Len(loc.result) = 2 /\ loc.result[1].dn # loc.result[2].dn

\* read has reported the empty sequence
C22_Witness_Empty ==
    /\ call.op = "read" /\ Done
    /\ reports # <<>> /\ reports[1].err = NoError
    /\ loc.result = <<>>

(***************************************************************************)
(* C23.  create: the entry sent to add has userPrincipalName equal to its  *)
(* sAMAccountName followed by the configured suffix, and equal to the      *)
(* suffix alone when the caller's entry has no sAMAccountName.             *)
(***************************************************************************)
C23_UserPrincipalName ==
    call.op = "create" =>
      \A i \in OfKind("add") :
         log[i].entry.userPrincipalName =
           IF call.entry.sAMAccountName = undefined THEN suffix
           ELSE call.entry.sAMAccountName \o suffix

\* C23 for the entries that have a sAMAccountName
C23_UserPrincipalName_Given ==
    (call.op = "create" /\ call.entry.sAMAccountName # undefined) =>
      C23_UserPrincipalName

\* a reachable state: an entry without sAMAccountName has been added with
\* the userPrincipalName "undefined" + suffix
C23_UndefinedPrincipal ==
    /\ call.op = "create" /\ call.entry.sAMAccountName = undefined
    /\ \E i \in OfKind("add") :
          /\ log[i].res = "ok"
          /\ log[i].entry.userPrincipalName = "undefined" \o suffix

(***************************************************************************)
(* C24.  update leaves the caller's change list as it was: at every point  *)
(* of an update the list object holds the elements it held when update was *)
(* called.                                                                 *)
(***************************************************************************)
C24_ChangeListUnchanged ==
    call.op = "update" => loc.changedAttrs = call.changedAttrs

\* C24 for the callback implementation alone
C24_ChangeListUnchanged_Callback ==
    call.impl = "callback" => C24_ChangeListUnchanged

\* a reachable state: the promise update has succeeded and the caller's list
\* has one element more, a displayName change
C24_ListGrown ==
    /\ call.impl = "promise" /\ call.op = "update" /\ Done
    /\ reports # <<>> /\ reports[1].err = NoError
    /\ Len(loc.changedAttrs) = Len(call.changedAttrs) + 1
    /\ loc.changedAttrs[Len(loc.changedAttrs)].attr = "displayName"

(***************************************************************************)
(* C25.  The promise move called without a new base DN: the target of      *)
(* every resolved entry is "cn={cn}," followed by the entry's current DN,  *)
(* which is never the current DN itself; so no entry is skipped, and once  *)
(* the search has ended exactly one modifyDN has been sent for every       *)
(* resolved entry, to that DN under the entry's own DN.                    *)
(***************************************************************************)
C25_MoveWithoutBase ==
    (call.impl = "promise" /\ call.op = "move" /\ Falsy(call.newDN)) =>
      /\ \A i \in OfKind("modifyDN") :
            /\ log[i].newDN # log[i].dn
            /\ \E k \in DOMAIN Resolved :
                  /\ Resolved[k].dn = log[i].dn
                  /\ log[i].newDN = "cn=" \o Str(Resolved[k].cn) \o "," \o log[i].dn
      /\ ReadEnded =>
            \A k \in DOMAIN Resolved :
               Cardinality({i \in OfKind("modifyDN") : log[i].dn = Resolved[k].dn}) = 1

\* move without a new base DN has resolved two entries and sent a modifyDN
\* for each
C25_Witness ==
    /\ call.impl = "promise" /\ call.op = "move" /\ call.newDN = undefined
    /\ Len(Resolved) = 2
    /\ Cardinality(OfKind("modifyDN")) = 2

====
